---- MODULE Spec2Model ----
(***************************************************************************)
(* One step of Lloyd's algorithm as implemented by                         *)
(* ParallelNaiveKMeans::Iterate (parallel_naive_kmeans_impl.hpp).          *)
(*                                                                         *)
(* A matrix is a record of its number of rows n_rows and the sequence col   *)
(* of its columns (so that a matrix without columns still has its number  *)
(* of rows); a column is a sequence of numbers.                            *)
(* Indices are 1-based here: the code's column j is column j+1 of the      *)
(* model, and the code's "invalid" cluster index n_cols is K+1.            *)
(*                                                                         *)
(* A double is modelled exactly, as a fraction <<n, d>> in lowest terms    *)
(* with d > 0, extended with the IEEE special values <<1, 0>> (+infinity), *)
(* <<-1, 0>> (-infinity) and <<0, 0>> (not-a-number).  Rounding is not     *)
(* modelled.  The square root of the return value is kept symbolic: the    *)
(* returned distortion is the record [sqrt |-> cNorm].                     *)
(***************************************************************************)
EXTENDS Integers, Sequences, FiniteSets, TLC

(* ------------------------------ bounds --------------------------------- *)
\* Largest number of points of a dataset.
MaxN == 2
\* Largest number of OpenMP threads of a parallel region.
MaxT == 2
\* Largest number of calls of Iterate on one object.
MaxCalls == 2

(* --------------------------- exact doubles ----------------------------- *)
AbsInt(n) == IF n < 0 THEN -n ELSE n
SgnInt(n) == IF n < 0 THEN -1 ELSE IF n > 0 THEN 1 ELSE 0

RECURSIVE GCD(_, _)
GCD(a, b) == IF b = 0 THEN a ELSE GCD(b, a % b)

\* The double n/d: lowest terms, positive denominator; x/0 is an infinity
\* and 0/0 is not-a-number.
Frac(n, d) ==
  IF d = 0 THEN <<SgnInt(n), 0>>
  ELSE LET g == GCD(AbsInt(n), AbsInt(d))
           s == IF d < 0 THEN -1 ELSE 1
       IN  <<(s * n) \div g, (s * d) \div g>>

Num(n) == <<n, 1>>
NaN == <<0, 0>>
PosInf == <<1, 0>>
IsNaN(x) == x = NaN
IsFinite(x) == x[2] # 0

\* a + b
Add(a, b) ==
  IF IsFinite(a) /\ IsFinite(b) THEN Frac(a[1] * b[2] + b[1] * a[2], a[2] * b[2])
  ELSE IF IsNaN(a) \/ IsNaN(b) THEN NaN
  ELSE IF IsFinite(b) THEN a
  ELSE IF IsFinite(a) THEN b
  ELSE IF a = b THEN a ELSE NaN

Neg(a) == <<-a[1], a[2]>>
\* a - b
Sub(a, b) == Add(a, Neg(b))
\* std::abs(a)
Abs(a) == <<AbsInt(a[1]), a[2]>>
\* a * b   (infinity * 0 and anything * NaN are NaN)
Mul(a, b) == Frac(a[1] * b[1], a[2] * b[2])
\* a / b   (x / 0 is an infinity, 0 / 0 is NaN)
Div(a, b) == Frac(a[1] * b[2], a[2] * b[1])
\* a < b on doubles: false as soon as one side is NaN.
Less(a, b) ==
  IF IsNaN(a) \/ IsNaN(b) THEN FALSE
  ELSE IF ~IsFinite(a) /\ ~IsFinite(b) THEN a[1] < b[1]
  ELSE a[1] * b[2] < b[1] * a[2]
\* std::pow(a, 2.0)
Pow2(a) == Mul(a, a)
\* std::sqrt(a), kept symbolic.
Sqrt(a) == [sqrt |-> a]

(* ------------------------------ vectors -------------------------------- *)
\* An integer column as a column of doubles.
Vec(v) == [r \in 1..Len(v) |-> Num(v[r])]
ZeroVec(rows) == [r \in 1..rows |-> Num(0)]
\* The matrix with the given number of rows and the given columns.
Mat(rows, cols) == [n_rows |-> rows, col |-> cols]
\* M.n_rows
NRows(M) == M.n_rows
\* M.n_cols
NCols(M) == Len(M.col)
\* mat.zeros(rows, cols)
Zeros(rows, cols) == Mat(rows, [c \in 1..cols |-> ZeroVec(rows)])
\* counts.zeros(cols)
ZeroCounts(cols) == [c \in 1..cols |-> 0]
VecAdd(a, b) == [r \in 1..Len(a) |-> Add(a[r], b[r])]
VecDiv(a, n) == [r \in 1..Len(a) |-> Div(a[r], Num(n))]
\* A = B where the code has A += B.
MatAssign(A, B) == B
\* A += B, column by column.
MatAdd(A, B) == Mat(NRows(A), [c \in 1..NCols(A) |-> VecAdd(A.col[c], B.col[c])])
\* a = b where the code has a += b.
CountsAssign(a, b) == b
\* a += b on arma::Col<size_t>
CountsAdd(a, b) == [c \in 1..Len(a) |-> a[c] + b[c]]

RECURSIVE SumOver(_, _)
\* The sum of f[1] .. f[n] of a sequence of doubles, left to right.
SumOver(f, n) == IF n = 0 THEN Num(0) ELSE Add(SumOver(f, n - 1), f[n])

(* ------------------------------ metrics -------------------------------- *)
\* The L1 distance (mlpack's ManhattanDistance); on one-dimensional data it
\* is also the Euclidean distance.
Manhattan(a, b) == SumOver([r \in 1..Len(a) |-> Abs(Sub(a[r], b[r]))], Len(a))
\* The L1 norm of a.
Norm1(a) == SumOver([r \in 1..Len(a) |-> Abs(a[r])], Len(a))

\* The metrics the object is constructed with.  "manhattan", "zero" and
\* "one" meet the Metric contract (deterministic, non-negative, finite):
\* "zero" is 0 between any two vectors and "one" is 1 between any two, equal
\* ones included.  "relative" divides by the norm of its first argument and
\* so yields +infinity or NaN when that argument is the origin.
Metrics == {"manhattan", "zero", "one", "relative"}

\* metric.Evaluate(a, b)
Evaluate(m, a, b) ==
  CASE m = "manhattan" -> Manhattan(a, b)
    [] m = "zero"      -> Num(0)
    [] m = "one"       -> Num(1)
    [] m = "relative"  -> Div(Manhattan(a, b), Norm1(a))

(* ------------------------- the nearest centroid ------------------------- *)
RECURSIVE ScanLastWins(_, _, _, _, _, _)
\* The loop with "distance <= minDistance" where the code has "<".
ScanLastWins(m, point, cents, j, minDistance, closestCluster) ==
  IF j > NCols(cents) THEN closestCluster
  ELSE LET distance == Evaluate(m, point, cents.col[j])
       IN  IF Less(distance, minDistance) \/ (distance = minDistance /\ ~IsNaN(distance))
           THEN ScanLastWins(m, point, cents, j + 1, distance, j)
           ELSE ScanLastWins(m, point, cents, j + 1, minDistance, closestCluster)

RECURSIVE Scan(_, _, _, _, _, _)
\* The loop over the centroids for one point, from centroid j on, with the
\* loop's two locals; its value is closestCluster after the loop.
Scan(m, point, cents, j, minDistance, closestCluster) ==
  IF j > NCols(cents) THEN closestCluster
  ELSE LET distance == Evaluate(m, point, cents.col[j])
       IN  IF Less(distance, minDistance)
           THEN Scan(m, point, cents, j + 1, distance, j)
           ELSE Scan(m, point, cents, j + 1, minDistance, closestCluster)

\* closestCluster of a point with minDistance starting at 0.
ClosestClusterFromZero(m, point, cents) == Scan(m, point, cents, 1, Num(0), NCols(cents) + 1)

\* closestCluster of a point: minDistance starts at +infinity and
\* closestCluster at the invalid value "number of centroids".
ClosestCluster(m, point, cents) == Scan(m, point, cents, 1, PosInf, NCols(cents) + 1)

\* Log::Assert(condition): a failed assertion is fatal and ends the call.
AssertHolds(condition) == condition

(* ------------------------------- inputs -------------------------------- *)
\* The columns datasets are made of.
Points == {<<0, 0>>, <<1, 1>>}
\* The one-dimensional dataset {0, 1, 10, 11}.
LineDataset == Mat(1, <<Vec(<<0>>), Vec(<<1>>), Vec(<<10>>), Vec(<<11>>)>>)
\* The columns centroid matrices are made of: two in the plane, two on the line.
CentroidPoints == {<<0, 0>>, <<2, 0>>, <<0>>, <<10>>}
\* The numbers of centroids of a call.
Ks == {0, 1, 2}

\* The datasets an object is constructed with: up to MaxN columns out of
\* Points, or the one-dimensional dataset.
Datasets ==
  {Mat(2, cols) : cols \in UNION {[1..n -> {Vec(p) : p \in Points}] : n \in 1..MaxN}}
    \cup {LineDataset}
\* The centroid matrices with the given number of rows, and the matrix
\* without rows and columns.  (A call whose centroids have columns and
\* differ from the dataset in their number of rows is not modelled.)
CentroidSets(rows) ==
  {Mat(rows, cols) :
     cols \in UNION {[1..k -> {Vec(p) : p \in {q \in CentroidPoints : Len(q) = rows}}] :
                       k \in Ks}}
    \cup {Mat(0, <<>>)}

(* -------------------------------- state -------------------------------- *)
VARIABLES
  dataset,              \* the dataset the object was constructed with
  metric,               \* the metric the object was constructed with
  distanceCalculations, \* the object's counter
  centroids,            \* Iterate's argument
  newCentroids,         \* the caller's output matrix
  counts,               \* the caller's output counts
  distortion,           \* <<>>, or <<d>> for the value d the last call returned
  pc,                   \* where the calling thread is
  numThreads,           \* the size of the thread team of the parallel region
  owner,                \* the schedule of "omp for": the thread of each point
  wpc,                  \* where each thread of the team is
  processed,            \* the points whose loop iteration has run
  localCentroids,       \* each thread's private sums
  localCounts,          \* each thread's private counts
  lock,                 \* the thread inside "omp critical", 0 for none
  calls,                \* the number of calls begun
  callSum               \* the sum of K*N + K over the calls begun

vars == <<dataset, metric, distanceCalculations, centroids, newCentroids, counts,
          distortion, pc, numThreads, owner, wpc, processed, localCentroids,
          localCounts, lock, calls, callSum>>

N == NCols(dataset)
K == NCols(centroids)
Threads == 1..numThreads

\* The constructor: the counter starts at 0; no call has been made, and the
\* caller's output objects are empty.
Init ==
  /\ dataset \in Datasets
  /\ metric \in Metrics
  /\ distanceCalculations = 0
  /\ centroids = Mat(0, <<>>)
  /\ newCentroids = Mat(0, <<>>)
  /\ counts = <<>>
  /\ distortion = <<>>
  /\ pc = "idle"
  /\ numThreads = 0
  /\ owner = <<>>
  /\ wpc = <<>>
  /\ processed = {}
  /\ localCentroids = <<>>
  /\ localCounts = <<>>
  /\ lock = 0
  /\ calls = 0
  /\ callSum = 0

\* Iterate is called; the outputs are given the shape of the centroids and
\* keep their contents when they have it already.
IterateBeginKeepsOutputs ==
  /\ pc = "idle"
  /\ calls < MaxCalls
  /\ \E c \in CentroidSets(NRows(dataset)) :
       /\ centroids' = c
       /\ newCentroids' = IF NCols(newCentroids) = NCols(c) /\ NRows(newCentroids) = NRows(c)
                           THEN newCentroids
                           ELSE Zeros(NRows(c), NCols(c))
       /\ counts' = IF Len(counts) = NCols(c) THEN counts ELSE ZeroCounts(NCols(c))
       /\ callSum' = callSum + NCols(c) * N + NCols(c)
  /\ distortion' = <<>>
  /\ calls' = calls + 1
  /\ pc' = "fork"
  /\ UNCHANGED <<dataset, metric, distanceCalculations, numThreads, owner, wpc,
                 processed, localCentroids, localCounts, lock>>

\* Iterate is called; the outputs are reset to zero.
IterateBegin ==
  /\ pc = "idle"
  /\ calls < MaxCalls
  /\ \E c \in CentroidSets(NRows(dataset)) :
       /\ centroids' = c
       /\ newCentroids' = Zeros(NRows(c), NCols(c))
       /\ counts' = ZeroCounts(NCols(c))
       /\ callSum' = callSum + NCols(c) * N + NCols(c)
  /\ distortion' = <<>>
  /\ calls' = calls + 1
  /\ pc' = "fork"
  /\ UNCHANGED <<dataset, metric, distanceCalculations, numThreads, owner, wpc,
                 processed, localCentroids, localCounts, lock>>

\* The schedules of "omp for" over n iterations for a team of t threads: every
\* iteration goes to exactly one thread, and a thread may get none.  The
\* threads of a team are interchangeable, so a schedule is taken up to a
\* renaming of the threads: the partitions of 1..n into at most t blocks,
\* with the blocks numbered in the order of their lowest iteration.
Schedules(n, t) ==
  {o \in [1..n -> 1..t] :
     \A i \in 1..n : \A u \in 1..(o[i] - 1) : \E j \in 1..(i - 1) : o[j] = u}

\* The parallel region starts: a team of threads, each with zeroed private
\* accumulators, and a schedule giving every loop index to one thread.
Fork ==
  /\ pc = "fork"
  /\ \E t \in 1..MaxT :
       /\ numThreads' = t
       /\ owner' \in Schedules(N, t)
       /\ wpc' = [u \in 1..t |-> "loop"]
       /\ localCentroids' = [u \in 1..t |-> Zeros(NRows(centroids), K)]
       /\ localCounts' = [u \in 1..t |-> ZeroCounts(K)]
  /\ processed' = {}
  /\ lock' = 0
  /\ pc' = "parallel"
  /\ UNCHANGED <<dataset, metric, distanceCalculations, centroids, newCentroids,
                 counts, distortion, calls, callSum>>

\* The loop indices of thread t that have not run yet.
Pending(t) == {i \in 1..N : owner[i] = t /\ i \notin processed}
Lowest(S) == CHOOSE i \in S : \A j \in S : i <= j

\* One iteration of the loop that adds the point to the shared accumulators.
AssignPointShared(t) ==
  /\ pc = "parallel"
  /\ wpc[t] = "loop"
  /\ Pending(t) # {}
  /\ LET i == Lowest(Pending(t))
         closestCluster == ClosestCluster(metric, dataset.col[i], centroids)
     IN  IF AssertHolds(closestCluster # K + 1)
         THEN /\ newCentroids' =
                   [newCentroids EXCEPT !.col[closestCluster] = VecAdd(@, dataset.col[i])]
              /\ counts' = [counts EXCEPT ![closestCluster] = @ + 1]
              /\ processed' = processed \cup {i}
              /\ UNCHANGED <<pc, wpc>>
         ELSE /\ pc' = "aborted"
              /\ wpc' = [wpc EXCEPT ![t] = "failed"]
              /\ UNCHANGED <<newCentroids, counts, processed>>
  /\ UNCHANGED <<dataset, metric, distanceCalculations, centroids, localCentroids,
                 localCounts, distortion, numThreads, owner, lock, calls, callSum>>

\* One iteration of the loop over the points, by thread t.
AssignPoint(t) ==
  /\ pc = "parallel"
  /\ wpc[t] = "loop"
  /\ Pending(t) # {}
  /\ LET i == Lowest(Pending(t))
         closestCluster == ClosestCluster(metric, dataset.col[i], centroids)
     IN  IF AssertHolds(closestCluster # K + 1)
         THEN /\ localCentroids' =
                   [localCentroids EXCEPT ![t].col[closestCluster] = VecAdd(@, dataset.col[i])]
              /\ localCounts' = [localCounts EXCEPT ![t][closestCluster] = @ + 1]
              /\ processed' = processed \cup {i}
              /\ UNCHANGED <<pc, wpc>>
         ELSE /\ pc' = "aborted"
              /\ wpc' = [wpc EXCEPT ![t] = "failed"]
              /\ UNCHANGED <<localCentroids, localCounts, processed>>
  /\ UNCHANGED <<dataset, metric, distanceCalculations, centroids, newCentroids,
                 counts, distortion, numThreads, owner, lock, calls, callSum>>

\* Thread t leaves its loop whether or not it has loop indices left.
LoopEndEarly(t) ==
  /\ pc = "parallel"
  /\ wpc[t] = "loop"
  /\ wpc' = [wpc EXCEPT ![t] = "barrier"]
  /\ UNCHANGED <<dataset, metric, distanceCalculations, centroids, newCentroids,
                 counts, distortion, pc, numThreads, owner, processed,
                 localCentroids, localCounts, lock, calls, callSum>>

\* Thread t has no loop index left and waits at the barrier that ends the loop.
LoopEnd(t) ==
  /\ pc = "parallel"
  /\ wpc[t] = "loop"
  /\ Pending(t) = {}
  /\ wpc' = [wpc EXCEPT ![t] = "barrier"]
  /\ UNCHANGED <<dataset, metric, distanceCalculations, centroids, newCentroids,
                 counts, distortion, pc, numThreads, owner, processed,
                 localCentroids, localCounts, lock, calls, callSum>>

\* The loop with "nowait": no barrier at its end.
BarrierNoWait == TRUE
\* Every thread of the team has reached the barrier of the loop.
BarrierOpen == \A u \in Threads : wpc[u] # "loop"

\* Thread t leaves the barrier and goes on to the merge without "omp critical".
EnterCriticalNoLock(t) ==
  /\ pc = "parallel"
  /\ wpc[t] = "barrier"
  /\ BarrierOpen
  /\ lock' = t
  /\ wpc' = [wpc EXCEPT ![t] = "mergeCentroids"]
  /\ UNCHANGED <<dataset, metric, distanceCalculations, centroids, newCentroids,
                 counts, distortion, pc, numThreads, owner, processed,
                 localCentroids, localCounts, calls, callSum>>

\* Thread t leaves the barrier and enters the critical section.
EnterCritical(t) ==
  /\ pc = "parallel"
  /\ wpc[t] = "barrier"
  /\ BarrierOpen
  /\ lock = 0
  /\ lock' = t
  /\ wpc' = [wpc EXCEPT ![t] = "mergeCentroids"]
  /\ UNCHANGED <<dataset, metric, distanceCalculations, centroids, newCentroids,
                 counts, distortion, pc, numThreads, owner, processed,
                 localCentroids, localCounts, calls, callSum>>

\* newCentroids += the private sums of the first thread of the team.
MergeCentroidsOfFirst(t) ==
  /\ pc = "parallel"
  /\ wpc[t] = "mergeCentroids"
  /\ newCentroids' = MatAdd(newCentroids, localCentroids[1])
  /\ wpc' = [wpc EXCEPT ![t] = "mergeCounts"]
  /\ UNCHANGED <<dataset, metric, distanceCalculations, centroids, counts,
                 distortion, pc, numThreads, owner, processed, localCentroids,
                 localCounts, lock, calls, callSum>>

\* newCentroids += localCentroids
MergeCentroids(t) ==
  /\ pc = "parallel"
  /\ wpc[t] = "mergeCentroids"
  /\ newCentroids' = MatAdd(newCentroids, localCentroids[t])
  /\ wpc' = [wpc EXCEPT ![t] = "mergeCounts"]
  /\ UNCHANGED <<dataset, metric, distanceCalculations, centroids, counts,
                 distortion, pc, numThreads, owner, processed, localCentroids,
                 localCounts, lock, calls, callSum>>

\* counts += localCounts by a thread that never leaves the critical section.
MergeCountsKeepsLock(t) ==
  /\ pc = "parallel"
  /\ wpc[t] = "mergeCounts"
  /\ counts' = CountsAdd(counts, localCounts[t])
  /\ wpc' = [wpc EXCEPT ![t] = "done"]
  /\ UNCHANGED <<dataset, metric, distanceCalculations, centroids, newCentroids,
                 distortion, pc, numThreads, owner, processed, localCentroids,
                 localCounts, lock, calls, callSum>>

\* counts += localCounts, and the end of the critical section.
MergeCounts(t) ==
  /\ pc = "parallel"
  /\ wpc[t] = "mergeCounts"
  /\ counts' = CountsAdd(counts, localCounts[t])
  /\ wpc' = [wpc EXCEPT ![t] = "done"]
  /\ lock' = 0
  /\ UNCHANGED <<dataset, metric, distanceCalculations, centroids, newCentroids,
                 distortion, pc, numThreads, owner, processed, localCentroids,
                 localCounts, calls, callSum>>

\* The normalization without its test "counts(i) != 0".
NormalizedUnguarded(nc, cnt) ==
  Mat(NRows(nc), [c \in 1..NCols(nc) |-> VecDiv(nc.col[c], cnt[c])])
\* The normalization dividing by the number of all points.
NormalizedByTotal(nc, cnt) ==
  LET total == SumOver([c \in 1..Len(cnt) |-> Num(cnt[c])], Len(cnt))[1]
  IN  Mat(NRows(nc),
          [c \in 1..NCols(nc) |-> IF cnt[c] # 0 THEN VecDiv(nc.col[c], total) ELSE nc.col[c]])
\* for (i ...) if (counts(i) != 0) newCentroids.col(i) /= counts(i);
Normalized(nc, cnt) ==
  Mat(NRows(nc),
      [c \in 1..NCols(nc) |-> IF cnt[c] # 0 THEN VecDiv(nc.col[c], cnt[c]) ELSE nc.col[c]])

\* A join that waits for the loop barrier only.
TeamAtBarrier == \A u \in Threads : wpc[u] \in {"barrier", "done"}
\* The end of the parallel region: every thread of the team is through it.
TeamDone == \A u \in Threads : wpc[u] = "done"

\* The normalization written into the input centroids.
NormalizeIntoInput ==
  /\ pc = "parallel"
  /\ TeamDone
  /\ centroids' = Normalized(newCentroids, counts)
  /\ pc' = "normalized"
  /\ numThreads' = 0
  /\ owner' = <<>>
  /\ wpc' = <<>>
  /\ processed' = {}
  /\ localCentroids' = <<>>
  /\ localCounts' = <<>>
  /\ UNCHANGED <<dataset, metric, distanceCalculations, newCentroids, counts,
                 distortion, lock, calls, callSum>>

\* The parallel region ends once every thread is through it, and with it the
\* team and the threads' private accumulators; the sums are then normalized.
Normalize ==
  /\ pc = "parallel"
  /\ TeamDone
  /\ newCentroids' = Normalized(newCentroids, counts)
  /\ pc' = "normalized"
  /\ numThreads' = 0
  /\ owner' = <<>>
  /\ wpc' = <<>>
  /\ processed' = {}
  /\ localCentroids' = <<>>
  /\ localCounts' = <<>>
  /\ UNCHANGED <<dataset, metric, distanceCalculations, centroids, counts,
                 distortion, lock, calls, callSum>>

\* The counter advanced by the number of centroids only.
CountAssignmentPerCentroid ==
  /\ pc = "normalized"
  /\ distanceCalculations' = distanceCalculations + K
  /\ pc' = "distortion"
  /\ UNCHANGED <<dataset, metric, centroids, newCentroids, counts, distortion,
                 numThreads, owner, wpc, processed, localCentroids, localCounts,
                 lock, calls, callSum>>

\* distanceCalculations += centroids.n_cols * dataset.n_cols;
CountAssignment ==
  /\ pc = "normalized"
  /\ distanceCalculations' = distanceCalculations + K * N
  /\ pc' = "distortion"
  /\ UNCHANGED <<dataset, metric, centroids, newCentroids, counts, distortion,
                 numThreads, owner, wpc, processed, localCentroids, localCounts,
                 lock, calls, callSum>>

\* cNorm of a loop that stops one centroid early.
CNormSkipsLast(m, cents, nc) ==
  SumOver([c \in 1..NCols(cents) |-> Pow2(Evaluate(m, cents.col[c], nc.col[c]))], NCols(cents) - 1)

\* cNorm after the loop over the centroids.
CNorm(m, cents, nc) ==
  SumOver([c \in 1..NCols(cents) |-> Pow2(Evaluate(m, cents.col[c], nc.col[c]))], NCols(cents))

\* The distortion is computed, the counter is advanced by the number of
\* centroids and the call returns.
Return ==
  /\ pc = "distortion"
  /\ distortion' = <<Sqrt(CNorm(metric, centroids, newCentroids))>>
  /\ distanceCalculations' = distanceCalculations + K
  /\ pc' = "idle"
  /\ UNCHANGED <<dataset, metric, centroids, newCentroids, counts, numThreads,
                 owner, wpc, processed, localCentroids, localCounts, lock, calls,
                 callSum>>

Next ==
  \/ IterateBegin
  \/ Fork
  \/ \E t \in Threads : AssignPoint(t)
  \/ \E t \in Threads : LoopEnd(t)
  \/ \E t \in Threads : EnterCritical(t)
  \/ \E t \in Threads : MergeCentroids(t)
  \/ \E t \in Threads : MergeCounts(t)
  \/ Normalize
  \/ CountAssignment
  \/ Return

Spec == Init /\ [][Next]_vars

\* The steps of thread t of the team.
Worker(t) ==
  /\ t \in Threads
  /\ \/ AssignPoint(t)
     \/ LoopEnd(t)
     \/ EnterCritical(t)
     \/ MergeCentroids(t)
     \/ MergeCounts(t)

\* The control flow of thread t: the statement it is at and the one it goes
\* to.  WorkerAdvance(t) can happen exactly when Worker(t) can, and a step of
\* the program is a WorkerAdvance(t) step exactly when it is a Worker(t)
\* step (FairnessOfTheActions).
WorkerAdvance(t) ==
  /\ pc = "parallel"
  /\ t \in Threads
  /\ \/ /\ wpc[t] = "loop"
        /\ Pending(t) # {}
        /\ \/ wpc' = wpc /\ processed' = processed \cup {Lowest(Pending(t))}
           \/ wpc' = [wpc EXCEPT ![t] = "failed"] /\ processed' = processed
     \/ /\ wpc[t] = "loop"
        /\ Pending(t) = {}
        /\ wpc' = [wpc EXCEPT ![t] = "barrier"]
        /\ processed' = processed
     \/ /\ wpc[t] = "barrier"
        /\ BarrierOpen
        /\ lock = 0
        /\ wpc' = [wpc EXCEPT ![t] = "mergeCentroids"]
        /\ processed' = processed
     \/ /\ wpc[t] = "mergeCentroids"
        /\ wpc' = [wpc EXCEPT ![t] = "mergeCounts"]
        /\ processed' = processed
     \/ /\ wpc[t] = "mergeCounts"
        /\ wpc' = [wpc EXCEPT ![t] = "done"]
        /\ processed' = processed

\* The control flow of the calling thread inside Iterate.
CallerAdvance ==
  \/ pc = "fork" /\ pc' = "parallel"
  \/ pc = "parallel" /\ TeamDone /\ pc' = "normalized"
  \/ pc = "normalized" /\ pc' = "distortion"
  \/ pc = "distortion" /\ pc' = "idle"

\* The steps of the calling thread inside Iterate.
Caller == Fork \/ Normalize \/ CountAssignment \/ Return

\* The fairness conditions are on the steps of the program.
FairnessOfTheActions ==
  [][/\ \A t \in 1..MaxT : Worker(t) <=> WorkerAdvance(t)
     /\ Caller <=> CallerAdvance]_vars

\* Scheduling: a thread of the team that can take a step eventually takes
\* one, and so does the calling thread once Iterate has been entered.  When
\* Iterate is called is up to the caller.
Fairness ==
  /\ \A t \in 1..MaxT : WF_<<wpc, processed>>(WorkerAdvance(t))
  /\ WF_pc(CallerAdvance)

FairSpec == Spec /\ Fairness

(* ------------------------- what the claims use -------------------------- *)
\* Iterate has returned.
Returned == pc = "idle" /\ calls > 0
\* The parallel region is complete: every thread has merged.
Joined == pc = "parallel" /\ TeamDone

RECURSIVE SumNat(_, _)
SumNat(f, n) == IF n = 0 THEN 0 ELSE SumNat(f, n - 1) + f[n]

\* The distance from point i to centroid j.
Dist(i, j) == Evaluate(metric, dataset.col[i], centroids.col[j])
\* The distances from point i to the centroids.
Dists(i) == [j \in 1..K |-> Dist(i, j)]
\* Every distance from point i is a finite number >= 0.
FiniteAt(i) ==
  LET d == Dists(i) IN \A j \in 1..K : IsFinite(d[j]) /\ ~Less(d[j], Num(0))
\* The inputs the contract calls valid.
ValidInput == K >= 1 /\ N >= 1 /\ \A i \in 1..N : FiniteAt(i)

\* The tie-break rule, stated without a scan: the lowest index among the
\* centroids at minimum distance from point i.
NearestByRule(i) ==
  LET d == Dists(i)
      IsNearest(j) == \A l \in 1..K : ~Less(d[l], d[j])
  IN  CHOOSE j \in 1..K : IsNearest(j) /\ \A l \in 1..(j - 1) : ~IsNearest(l)
\* The points of cluster c under the rule.
Members(c) == {i \in 1..N : NearestByRule(i) = c}

RECURSIVE PointSum(_)
\* The component-wise sum of the points with indices in S.
PointSum(S) ==
  IF S = {} THEN ZeroVec(NRows(dataset))
  ELSE LET i == CHOOSE x \in S : TRUE IN VecAdd(dataset.col[i], PointSum(S \ {i}))

RECURSIVE SeqAcc(_)
\* The accumulators of one thread that runs the loop over points 1..i alone.
SeqAcc(i) ==
  IF i = 0 THEN [cent |-> Zeros(NRows(centroids), K), cnt |-> ZeroCounts(K)]
  ELSE LET a == SeqAcc(i - 1)
           c == ClosestCluster(metric, dataset.col[i], centroids)
       IN  [cent |-> [a.cent EXCEPT !.col[c] = VecAdd(@, dataset.col[i])],
            cnt  |-> [a.cnt EXCEPT ![c] = @ + 1]]

(* -------------------------------- claims -------------------------------- *)
\* C1: for valid inputs, whatever the team size, the schedule and the merge
\* order, once the parallel region is complete and until (and when) Iterate
\* has returned, the counts add up to the number of points.
C1_CountsSumToN ==
  ((Joined \/ pc \in {"normalized", "distortion"} \/ Returned) /\ ValidInput)
    => SumNat(counts, K) = N

\* A call on two points and two centroids has returned with one point each.
C1_Witness ==
  Returned /\ ValidInput /\ N = 2 /\ K = 2 /\ counts = <<1, 1>>

\* C2: when Iterate has returned, every cluster with a non-zero count counts
\* exactly the points nearest to it under the tie-break rule, and its new
\* centroid is the sum of those points divided by that count.
C2_MeanOfMembers ==
  Returned =>
    \A c \in 1..K :
      counts[c] > 0 =>
        /\ counts[c] = Cardinality(Members(c))
        /\ newCentroids.col[c] = VecDiv(PointSum(Members(c)), Cardinality(Members(c)))

\* The call on the dataset {0, 1, 10, 11} with the centroids {0, 10} has
\* returned the counts {2, 2} and the centroids {1/2, 21/2}.
C2_Witness ==
  /\ Returned
  /\ dataset = LineDataset
  /\ centroids = Mat(1, <<Vec(<<0>>), Vec(<<10>>)>>)
  /\ metric = "manhattan"
  /\ counts = <<2, 2>>
  /\ newCentroids = Mat(1, <<<<Frac(1, 2)>>, <<Frac(21, 2)>>>>)
  /\ distortion = <<Sqrt(Frac(1, 2))>>

\* C3: every loop iteration that assigns a point adds it to its thread's
\* private sum and count of one cluster, the one of the lowest-indexed
\* centroid at minimum distance from the point, and to no other cluster.
C3_LowestIndexWins ==
  [][\A i \in processed' \ processed :
       FiniteAt(i) =>
         LET t == owner[i]
             c == NearestByRule(i)
         IN  /\ localCounts'[t] = [localCounts[t] EXCEPT ![c] = @ + 1]
             /\ localCentroids'[t] =
                  [localCentroids[t] EXCEPT !.col[c] = VecAdd(@, dataset.col[i])]]_vars

\* A processed point at the same distance from two different centroids,
\* counted by its thread for the first of them and not for the second.
C3_Witness ==
  /\ pc = "parallel"
  /\ K = 2
  /\ centroids.col[1] # centroids.col[2]
  /\ \E i \in processed :
       /\ Dist(i, 1) = Dist(i, 2)
       /\ IsFinite(Dist(i, 1))
       /\ localCounts[owner[i]][1] >= 1
       /\ localCounts[owner[i]][2] = 0

\* C4: the sums and counts at the end of the parallel region, and the
\* centroids, counts and distortion returned, are those of a single thread
\* running the loop over all points in index order: they depend on the
\* dataset, the centroids and the metric alone.
C4_SameAsOneThread ==
  /\ Joined => /\ newCentroids = SeqAcc(N).cent
               /\ counts = SeqAcc(N).cnt
  /\ Returned =>
       LET a == SeqAcc(N)
           nc == Normalized(a.cent, a.cnt)
       IN  /\ newCentroids = nc
           /\ counts = a.cnt
           /\ distortion = <<Sqrt(CNorm(metric, centroids, nc))>>

\* The parallel region is complete for a team of at least two threads one of
\* which got no point, while both clusters received points.
C4_Witness ==
  /\ Joined
  /\ numThreads >= 2
  /\ \E u \in Threads : \A i \in 1..N : owner[i] # u
  /\ N >= 2
  /\ K = 2
  /\ counts[1] > 0
  /\ counts[2] > 0

\* C5: when Iterate has returned, a cluster without points has count 0 and
\* the zero vector as its new centroid.
C5_EmptyClusterIsZero ==
  Returned =>
    \A c \in 1..K :
      (Members(c) = {} \/ counts[c] = 0) =>
        /\ counts[c] = 0
        /\ newCentroids.col[c] = ZeroVec(NRows(centroids))

\* A call has returned with an empty second cluster whose old centroid was
\* not the origin.
C5_Witness ==
  /\ Returned
  /\ K = 2
  /\ counts[2] = 0
  /\ centroids.col[2] # ZeroVec(NRows(centroids))
  /\ newCentroids.col[2] = ZeroVec(NRows(centroids))

\* The value d of a returned distortion sqrt(x) is >= 0, and is 0.
SqrtGeqZero(d) == ~IsNaN(d.sqrt) /\ ~Less(d.sqrt, Num(0))
SqrtIsZero(d) == d.sqrt = Num(0)
\* The distance the distortion takes for cluster c.
Moved(c) == Evaluate(metric, centroids.col[c], newCentroids.col[c])
\* Every distance the call evaluated is a finite number >= 0.
MetricContractHolds ==
  /\ \A i \in 1..N : FiniteAt(i)
  /\ \A c \in 1..K : IsFinite(Moved(c)) /\ ~Less(Moved(c), Num(0))
\* Between each centroid of the call and its new centroid, the metric is 0
\* exactly when the two are equal: 0 for equal arguments, and for no others.
MetricSeparates ==
  \A c \in 1..K : (Moved(c) = Num(0)) <=> (centroids.col[c] = newCentroids.col[c])

\* C6, as stated: for every metric within the Metric contract the returned
\* distortion is >= 0, and it is 0 if and only if no centroid changed.
C6_ZeroIffUnmoved ==
  (Returned /\ MetricContractHolds) =>
    /\ SqrtGeqZero(distortion[1])
    /\ SqrtIsZero(distortion[1]) <=> (newCentroids = centroids)

\* C6, amended: for every metric within the contract the returned distortion
\* is >= 0; it is 0 if and only if no centroid changed when, in addition, the
\* metric is 0 between a centroid of the call and its new centroid if and
\* only if the two are equal.  (Neither half can be dropped: "zero" is 0
\* between different vectors, "one" is not 0 between equal ones.)
C6_ZeroIffUnmovedForSeparatingMetric ==
  (Returned /\ MetricContractHolds) =>
    /\ SqrtGeqZero(distortion[1])
    /\ MetricSeparates => (SqrtIsZero(distortion[1]) <=> (newCentroids = centroids))

\* A call under the Manhattan metric has returned distortion 0 with its
\* centroid, the mean of all points, where it was.
C6_Witness ==
  /\ Returned
  /\ metric = "manhattan"
  /\ K >= 1
  /\ counts[1] = N
  /\ newCentroids = centroids
  /\ distortion = <<Sqrt(Num(0))>>

\* C7: the counter is 0 after construction, no step decreases it, and when a
\* call returns it equals the sum of K*N + K over the calls made so far (it
\* was that sum, without the call's own term, when the call began).
C7_CounterExact ==
  /\ distanceCalculations = 0
  /\ [][/\ distanceCalculations' >= distanceCalculations
        /\ (pc = "idle" /\ pc' # "idle") => distanceCalculations = callSum
        /\ (pc # "idle" /\ pc' = "idle") => distanceCalculations' = callSum']_vars

\* A second call on two points has returned, after a first one that counted.
C7_Witness ==
  /\ Returned
  /\ calls = 2
  /\ N = 2
  /\ distanceCalculations = callSum
  /\ distanceCalculations > K * N + K

\* C8, as stated: a call without centroids is rejected before the parallel
\* region is entered and never reaches the closest-cluster assertion.
C8_NoCentroidsRejected ==
  (calls > 0 /\ K = 0) => pc \notin {"parallel", "aborted"}

\* C9: after a failed closest-cluster assertion the caller's outputs hold
\* no thread's merge: they are the zeros written at call start, no thread is
\* in or past the critical section, and the call does not go on.
C9_NoPartialOutput ==
  pc = "aborted" =>
    /\ newCentroids = Zeros(NRows(centroids), K)
    /\ counts = ZeroCounts(K)
    /\ lock = 0
    /\ \A u \in Threads : wpc[u] \in {"loop", "barrier", "failed"}

\* The assertion failed in one thread while another had finished its range
\* with a point in its private sums, waiting at the barrier.
C9_Witness ==
  /\ pc = "aborted"
  /\ K >= 1
  /\ \E u \in Threads : wpc[u] = "barrier" /\ SumNat(localCounts[u], K) > 0

\* C10: the normalization starts only when every thread has run all of its
\* loop iterations and has left the critical section; from then on the counts
\* are those of the complete merge, and the call returns only after the
\* distortion step.
C10_ForkJoin ==
  [][/\ (pc = "parallel" /\ pc' = "normalized") =>
          /\ \A u \in Threads : wpc[u] = "done"
          /\ processed = 1..N
          /\ lock = 0
     /\ pc \in {"normalized", "distortion"} =>
          /\ counts' = counts
          /\ SumNat(counts, K) = N
          /\ numThreads = 0
     /\ (pc # "idle" /\ pc' = "idle") => pc = "distortion"]_vars

\* The normalization has run after the merges of a call on two points that
\* went to different clusters.
C10_Witness ==
  /\ pc = "normalized"
  /\ N = 2
  /\ K = 2
  /\ counts = <<1, 1>>

\* C11: under fair scheduling every call on valid inputs returns: from the
\* entry of the parallel region on, every thread gets through its loop, the
\* barrier and the critical section, and the calling thread through the
\* finalization.
C11_CallCompletes ==
  (pc \in {"fork", "parallel"} /\ ValidInput) ~> Returned

\* In a second call on valid inputs, one thread of a team of two has left
\* the critical section and the other one is inside it.
C11_Witness ==
  /\ pc = "parallel"
  /\ ValidInput
  /\ calls = 2
  /\ numThreads = 2
  /\ \E u \in Threads : \E v \in Threads :
       wpc[u] = "done" /\ wpc[v] = "mergeCentroids" /\ lock = v

\* C12: a call leaves its inputs alone: no step changes the dataset or the
\* metric of the object, and from the step after the call has begun until it
\* has returned no step changes the centroids passed in; what a call writes
\* is newCentroids, counts and the counter.
C12_InputsUnchanged ==
  [][/\ dataset' = dataset
     /\ metric' = metric
     /\ (pc # "idle" => centroids' = centroids)]_vars

C12_Witness ==
  /\ Returned
  /\ dataset = Mat(2, <<Vec(<<1, 1>>), Vec(<<1, 1>>)>>)
  /\ centroids = Mat(2, <<Vec(<<0, 0>>), Vec(<<2, 0>>)>>)
  /\ newCentroids = Mat(2, <<Vec(<<1, 1>>), Vec(<<0, 0>>)>>)
  /\ counts = <<2, 0>>
  /\ distanceCalculations = 6

\* Thread t is inside the critical section.
InCritical(t) == wpc[t] \in {"mergeCentroids", "mergeCounts"}

RECURSIVE CentroidsMerged(_)
\* The sum of the private sums of the threads 1..t that have executed
\* "newCentroids += localCentroids".
CentroidsMerged(t) ==
  IF t = 0 THEN Zeros(NRows(centroids), K)
  ELSE IF wpc[t] \in {"mergeCounts", "done"}
       THEN MatAdd(CentroidsMerged(t - 1), localCentroids[t])
       ELSE CentroidsMerged(t - 1)

RECURSIVE CountsMerged(_)
\* The sum of the private counts of the threads 1..t that have executed
\* "counts += localCounts".
CountsMerged(t) ==
  IF t = 0 THEN ZeroCounts(K)
  ELSE IF wpc[t] = "done"
       THEN CountsAdd(CountsMerged(t - 1), localCounts[t])
       ELSE CountsMerged(t - 1)

\* C13: in every state of the parallel region at most one thread is inside
\* the critical section, and the shared sums and counts are exactly the sums
\* of the private ones of the threads that have merged them: no contribution
\* is lost or counted twice.
C13_MergeIsExclusive ==
  pc = "parallel" =>
    /\ \A u \in Threads : \A v \in Threads :
         InCritical(u) /\ InCritical(v) => u = v
    /\ newCentroids = CentroidsMerged(numThreads)
    /\ counts = CountsMerged(numThreads)

C13_Witness ==
  /\ pc = "parallel"
  /\ numThreads = 2
  /\ \E u \in Threads : \E v \in Threads :
       /\ wpc[u] = "mergeCounts"
       /\ wpc[v] = "barrier"
       /\ SumNat(localCounts[u], K) > 0
       /\ SumNat(localCounts[v], K) > 0
       /\ newCentroids = localCentroids[u]
       /\ counts = ZeroCounts(K)

\* C14: a loop iteration of a thread changes that thread's private sums and
\* counts only: it leaves the shared newCentroids and counts and the private
\* accumulators of every other thread as they are, and so does every step
\* taken while some thread is still in its loop.  newCentroids is written
\* only when the call begins, by the thread inside the critical section and
\* by the normalization; counts only when the call begins and by the thread
\* inside the critical section.
C14_PrivateUntilMerge ==
  [][/\ \A i \in processed' \ processed :
          /\ newCentroids' = newCentroids
          /\ counts' = counts
          /\ \A u \in Threads \ {owner[i]} :
               /\ localCentroids'[u] = localCentroids[u]
               /\ localCounts'[u] = localCounts[u]
     /\ (pc = "parallel" /\ \E u \in Threads : wpc[u] = "loop") =>
          newCentroids' = newCentroids /\ counts' = counts
     /\ newCentroids' # newCentroids =>
          \/ pc = "idle" /\ pc' = "fork"
          \/ \E t \in Threads :
               wpc[t] = "mergeCentroids" /\ lock = t /\ wpc'[t] = "mergeCounts"
          \/ pc = "parallel" /\ pc' = "normalized"
     /\ counts' # counts =>
          \/ pc = "idle" /\ pc' = "fork"
          \/ \E t \in Threads :
               wpc[t] = "mergeCounts" /\ lock = t /\ wpc'[t] = "done"]_vars

C14_Witness ==
  /\ pc = "parallel"
  /\ numThreads = 2
  /\ processed = {1, 2}
  /\ wpc = <<"loop", "barrier">>
  /\ SumNat(localCounts[1], K) = 1
  /\ SumNat(localCounts[2], K) = 1
  /\ counts = ZeroCounts(K)
  /\ newCentroids = Zeros(NRows(centroids), K)

\* The point at which thread t's assertion failed.
FailedAt(t) == Lowest(Pending(t))
\* Some distance from point i is a number below +infinity.
Comparable(i) == \E j \in 1..K : Less(Dist(i, j), PosInf)

\* C15 as claimed: whenever the assertion has failed, there is no centroid
\* or some distance from the point it failed at is not-a-number.
C15_AssertFailsOnlyOnNaN ==
  pc = "aborted" =>
    \/ K = 0
    \/ \E t \in Threads :
         wpc[t] = "failed" /\ \E j \in 1..K : IsNaN(Dist(FailedAt(t), j))

\* C15, amended: the assertion fails at a point only if there is no centroid
\* or no distance from that point is a number below +infinity (each is
\* not-a-number or +infinity); when there is a centroid and some distance from
\* the point is below +infinity, the iteration passes the assertion and adds
\* the point to exactly one cluster out of the K.
C15_AssertFailsOnlyWithoutComparableDistance ==
  [][\A t \in Threads :
       (wpc[t] = "loop" /\ Pending(t) # {}) =>
         LET i == Lowest(Pending(t))
         IN  /\ wpc'[t] = "failed" => K = 0 \/ ~Comparable(i)
             /\ (i \in processed' \/ wpc'[t] = "failed") /\ K >= 1 /\ Comparable(i) =>
                  /\ pc' = "parallel"
                  /\ i \in processed'
                  /\ \E c \in 1..K :
                       /\ localCounts'[t][c] = localCounts[t][c] + 1
                       /\ \A e \in (1..K) \ {c} :
                            localCounts'[t][e] = localCounts[t][e]]_vars

C15_Witness ==
  /\ pc = "aborted"
  /\ K = 2
  /\ \E t \in Threads :
       /\ wpc[t] = "failed"
       /\ \A j \in 1..K : Dist(FailedAt(t), j) = PosInf

RECURSIVE Accumulated(_, _, _, _)
\* The sums and counts over the points 1..i of dataset d for centroids c
\* under metric m, starting from zero.
Accumulated(d, c, m, i) ==
  IF i = 0 THEN [cent |-> Zeros(NRows(c), NCols(c)), cnt |-> ZeroCounts(NCols(c))]
  ELSE LET a == Accumulated(d, c, m, i - 1)
           j == ClosestCluster(m, d.col[i], c)
       IN  [cent |-> [a.cent EXCEPT !.col[j] = VecAdd(@, d.col[i])],
            cnt  |-> [a.cnt EXCEPT ![j] = @ + 1]]

\* What a call returns, as a function of the dataset, the centroids and the
\* metric and of nothing else.
Outputs(d, c, m) ==
  LET a == Accumulated(d, c, m, NCols(d))
      nc == Normalized(a.cent, a.cnt)
  IN  [newCentroids |-> nc, counts |-> a.cnt, distortion |-> Sqrt(CNorm(m, c, nc))]

\* C16: whatever newCentroids and counts held and whatever the counter is,
\* the step that begins a call makes both outputs zero with the shape of the
\* centroids passed in, and the step that returns leaves in newCentroids,
\* counts and the distortion a function of the dataset, the centroids and the
\* metric alone; so two calls with the same three return the same.
C16_OutputsOfInputsAlone ==
  [][/\ (pc = "idle" /\ pc' = "fork") =>
          /\ newCentroids' = Zeros(NRows(centroids'), NCols(centroids'))
          /\ counts' = ZeroCounts(NCols(centroids'))
     /\ (pc = "distortion" /\ pc' = "idle") =>
          LET out == Outputs(dataset, centroids, metric)
          IN  /\ newCentroids' = out.newCentroids
              /\ counts' = out.counts
              /\ distortion' = <<out.distortion>>]_vars

\* A second call has returned one centroid for two points on an object whose
\* first call had two centroids: the outputs held two columns and the
\* counter was 6 when it began.
C16_Witness ==
  /\ Returned
  /\ calls = 2
  /\ N = 2
  /\ K = 1
  /\ distanceCalculations = 9
  /\ counts = <<2>>
  /\ NCols(newCentroids) = 1

RECURSIVE UnmergedCount(_)
\* The number of points in the private counts of the threads 1..t that have
\* not executed "counts += localCounts".
UnmergedCount(t) ==
  IF t = 0 THEN 0
  ELSE UnmergedCount(t - 1) + (IF wpc[t] # "done" THEN SumNat(localCounts[t], K) ELSE 0)

RECURSIVE UnmergedSum(_, _)
\* The sum for cluster c in the private sums of the threads 1..t that have
\* not executed "newCentroids += localCentroids".
UnmergedSum(t, c) ==
  IF t = 0 THEN ZeroVec(NRows(centroids))
  ELSE IF wpc[t] \in {"mergeCounts", "done"}
       THEN UnmergedSum(t - 1, c)
       ELSE VecAdd(UnmergedSum(t - 1, c), localCentroids[t].col[c])

\* In the parallel region, the shared and the not yet merged private
\* accumulators together hold every processed point once.
Conservation ==
  /\ SumNat(counts, K) + UnmergedCount(numThreads) = Cardinality(processed)
  /\ \A c \in 1..K :
       VecAdd(newCentroids.col[c], UnmergedSum(numThreads, c)) =
         PointSum({i \in processed : ClosestCluster(metric, dataset.col[i], centroids) = c})
  /\ SumNat(counts, K) <= N

\* C17: in every state of the parallel region (a failed assertion included)
\* the shared counts plus the private counts not yet merged add up to the
\* number of points processed so far, for each cluster the shared sum plus
\* the private sums not yet merged is the sum of the processed points of that
\* cluster, the shared counts add up to at most N, and no step of the
\* region decreases a shared count.
C17_Conservation ==
  /\ [](pc \in {"parallel", "aborted"} => Conservation)
  /\ [][(pc = "parallel" /\ pc' = "parallel") =>
          \A c \in 1..K : counts'[c] >= counts[c]]_vars

\* One thread has merged its point and the other still holds its own.
C17_Witness ==
  /\ pc = "parallel"
  /\ numThreads = 2
  /\ N = 2
  /\ wpc = <<"done", "barrier">>
  /\ SumNat(counts, K) = 1
  /\ SumNat(localCounts[2], K) = 1
  /\ Conservation

\* How far a thread is through the parallel region.
Rank(w) ==
  CASE w = "loop" -> 0
    [] w = "barrier" -> 1
    [] w = "mergeCentroids" -> 2
    [] w = "mergeCounts" -> 3
    [] w = "done" -> 4
    [] OTHER -> 5

\* C18: in the parallel region the points a thread has counted are the
\* processed points of its own range, a thread at or past its merge has no
\* point of its range left, and when every thread is done every point is
\* processed; a step processes at most one point, a point not processed
\* before, in the loop of the thread that owns it, and counts it once there
\* and nowhere else; a thread moves forward one statement at a time, so it
\* passes each of the two merge statements once, and its private
\* accumulators do not change once it has left its loop.
C18_EachPointOnceEachMergeOnce ==
  /\ [](pc = "parallel" =>
         /\ \A t \in Threads :
              /\ SumNat(localCounts[t], K) =
                   Cardinality({i \in processed : owner[i] = t})
              /\ Rank(wpc[t]) >= 2 => \A i \in 1..N : owner[i] = t => i \in processed
         /\ (\A t \in Threads : wpc[t] = "done") => processed = 1..N)
  /\ [][(pc = "parallel" /\ pc' = "parallel") =>
         /\ processed \subseteq processed'
         /\ Cardinality(processed' \ processed) <= 1
         /\ \A i \in processed' \ processed :
              /\ wpc[owner[i]] = "loop"
              /\ \A t \in Threads :
                   SumNat(localCounts'[t], K) =
                     SumNat(localCounts[t], K) + (IF t = owner[i] THEN 1 ELSE 0)
         /\ \A t \in Threads :
              /\ Rank(wpc'[t]) \in {Rank(wpc[t]), Rank(wpc[t]) + 1}
              /\ wpc[t] # "loop" =>
                   /\ localCentroids'[t] = localCentroids[t]
                   /\ localCounts'[t] = localCounts[t]]_vars

\* Two threads with one point each have both merged.
C18_Witness ==
  /\ Joined
  /\ numThreads = 2
  /\ owner = <<1, 2>>
  /\ processed = {1, 2}
  /\ SumNat(localCounts[1], K) = 1
  /\ SumNat(localCounts[2], K) = 1
  /\ SumNat(counts, K) = 2

====
